---- MODULE Spec2Model ----
(***************************************************************************)
(* Model of devsolux/yt-dlp-gui:                                           *)
(*   - FormatSelectorFrame (gui/components/format_selector.py): the        *)
(*     type/quality widget and the format record it emits;                 *)
(*   - build.py: the packaging script (main and the stages it drives).     *)
(* Strings whose characters matter (quality labels, format identifiers)    *)
(* are sequences of one-character strings or of string fragments.          *)
(***************************************************************************)
EXTENDS Integers, Sequences, FiniteSets, TLC

VARIABLES
    \* FormatSelectorFrame
    type_var,            \* self.type_var (StringVar)
    quality_var,         \* self.quality_var (StringVar), a sequence of characters
    quality_shown,       \* quality_label / quality_dropdown are gridded
    on_format_change,    \* TRUE when a callback was given to the constructor
    notified,            \* last record handed to the callback, <<>> when none yet
    current_url,         \* self.current_url
    available_formats,   \* self.available_formats
    returned,            \* value returned by the last getter call, <<>> when none
    \* build.py
    pc,                  \* the statement of main() that runs next
    platform_system,     \* platform.system()
    platform_machine,    \* platform.machine()
    dist,                \* what the dist directory holds of the bundler's output
    staging,             \* the staging directories that exist under build/
    archives,            \* the archives written in the dist directory
    calls,               \* the stages and external tools run so far, in order
    adjusted,            \* what each adjust_macos_app call returned, in order
    exit_status          \* exit status of the process, <<>> while it runs

wvars == <<type_var, quality_var, quality_shown, on_format_change, notified,
           current_url, available_formats, returned>>

bvars == <<pc, platform_system, platform_machine, dist, staging, archives,
           calls, adjusted, exit_status>>

vars == <<wvars, bvars>>

-----------------------------------------------------------------------------
(* Bounds *)

\* longest free-form label tried against the pure format functions
MaxLen == 4
\* longest free-form label a caller passes to set_format in the widget runs
MaxSetLen == 2

-----------------------------------------------------------------------------
(* Characters and labels *)

Digits == {"0", "1", "2", "3", "4", "5", "6", "7", "8", "9"}

DigitVal(c) ==
    CASE c = "0" -> 0 [] c = "1" -> 1 [] c = "2" -> 2 [] c = "3" -> 3
      [] c = "4" -> 4 [] c = "5" -> 5 [] c = "6" -> 6 [] c = "7" -> 7
      [] c = "8" -> 8 [] c = "9" -> 9

DigitChar(d) ==
    CASE d = 0 -> "0" [] d = 1 -> "1" [] d = 2 -> "2" [] d = 3 -> "3"
      [] d = 4 -> "4" [] d = 5 -> "5" [] d = 6 -> "6" [] d = 7 -> "7"
      [] d = 8 -> "8" [] d = 9 -> "9"

Best == <<"B", "e", "s", "t">>

DefaultQuality == <<"2", "1", "6", "0", "p", " ", "(", "4", "K", ")">>

\* values of the quality dropdown, in order
QualityValues ==
    << Best,
       DefaultQuality,
       <<"1", "4", "4", "0", "p", " ", "(", "2", "K", ")">>,
       <<"1", "0", "8", "0", "p">>,
       <<"7", "2", "0", "p">>,
       <<"4", "8", "0", "p">>,
       <<"3", "6", "0", "p">>,
       <<"2", "4", "0", "p">>,
       <<"1", "4", "4", "p">> >>

DropdownLabels == {QualityValues[i] : i \in 1..Len(QualityValues)}

\* values of the type segmented button
TypeValues == {"video", "audio"}

SeqsUpTo(S, n) == UNION {[1..k -> S] : k \in 0..n}

\* free-form labels: every string over the alphabet up to the bound
Alphabet == {"0", "1", "4", "8", "p", "K"}
FreeLabels == SeqsUpTo(Alphabet, MaxLen)
AllLabels == DropdownLabels \cup FreeLabels

SetAlphabet == {"0", "7", "p"}
SetLabels == DropdownLabels \cup SeqsUpTo(SetAlphabet, MaxSetLen)

\* arguments a caller can hand to on_type_change
TypeArgs == TypeValues \cup {"podcast"}

None == <<>>
Some(x) == <<x>>

-----------------------------------------------------------------------------
(* get_quality_height: re.search(r'(\d+)p', quality) and int()             *)

IsDigit(c) == c \in Digits

RECURSIVE RunEnd(_, _)
\* last index of the maximal run of digits that starts at i (q[i] is a digit)
RunEnd(q, i) ==
    IF i < Len(q) /\ IsDigit(q[i + 1]) THEN RunEnd(q, i + 1) ELSE i

\* (\d+)p matches with the group starting at i: greedy digits, then 'p'
MatchAt(q, i) ==
    /\ IsDigit(q[i])
    /\ RunEnd(q, i) < Len(q)
    /\ q[RunEnd(q, i) + 1] = "p"

\* mutant: the last run of digits of the label, whatever follows it
re_search_last(q) ==
    LET ends == {i \in 1..Len(q) : IsDigit(q[i]) /\ RunEnd(q, i) = i}
    IN  IF ends = {} THEN None
        ELSE LET j == CHOOSE a \in ends : \A b \in ends : a >= b
                 i == CHOOSE a \in 1..j :
                          /\ IsDigit(q[a])
                          /\ RunEnd(q, a) = j
                          /\ (a = 1 \/ ~IsDigit(q[a - 1]))
             IN  Some(SubSeq(q, i, j))

\* re.search: the leftmost match; the result is group(1), or None
re_search(q) ==
    LET starts == {i \in 1..Len(q) : MatchAt(q, i)}
    IN  IF starts = {} THEN None
        ELSE LET i == CHOOSE a \in starts : \A b \in starts : a <= b
             IN  Some(SubSeq(q, i, RunEnd(q, i)))

RECURSIVE int(_)
\* int() of a non-empty string of decimal digits
int(ds) ==
    IF Len(ds) = 0 THEN 0
    ELSE int(SubSeq(ds, 1, Len(ds) - 1)) * 10 + DigitVal(ds[Len(ds)])

RECURSIVE str(_)
\* decimal text of a natural number, as the f-string writes {height}
str(n) ==
    IF n < 10 THEN <<DigitChar(n)>>
    ELSE str(n \div 10) \o <<DigitChar(n % 10)>>

get_quality_height(quality) ==
    IF quality = Best THEN None
    ELSE LET match == re_search(quality)
         IN  IF match # None THEN Some(int(match[1])) ELSE None

-----------------------------------------------------------------------------
(* get_selected_format / get_format_string                                 *)

\* a format identifier is the sequence of its fragments; the digits of an
\* interpolated height are one-character fragments
AudioFormat == <<"bestaudio/best">>

UnrestrictedFormat == <<"best[ext=mp4]/bestvideo+bestaudio/best">>

HeightIs(h) == <<"[height<=">> \o str(h) \o <<"]">>

H264Format(h) ==
    <<"best">> \o HeightIs(h) \o <<"[ext=mp4][vcodec!=none][acodec!=none]/bestvideo">>
    \o HeightIs(h) \o <<"[vcodec^=avc1]+bestaudio[acodec^=mp4a]/bestvideo">>
    \o HeightIs(h) \o <<"+bestaudio/best">> \o HeightIs(h)

CappedFormat(h) ==
    <<"best">> \o HeightIs(h) \o <<"[ext=mp4]/bestvideo">>
    \o HeightIs(h) \o <<"+bestaudio/best">>

H264Threshold == 480

\* mutant: "is not None" in place of truthiness
Truthy_not_none(height) == height # None

\* truthiness of an Optional[int]: None and 0 are false
Truthy(height) == height # None /\ height[1] # 0

\* mutant: "Best" capped at the highest height of the dropdown
VideoFormatId_best_capped(quality) ==
    IF quality = Best THEN CappedFormat(2160)
    ELSE LET height == get_quality_height(quality)
         IN  IF Truthy(height)
             THEN IF height[1] <= H264Threshold
                  THEN H264Format(height[1])
                  ELSE CappedFormat(height[1])
             ELSE UnrestrictedFormat

\* mutant: the threshold compared with < in place of <=
VideoFormatId_below_threshold(quality) ==
    IF quality = Best THEN UnrestrictedFormat
    ELSE LET height == get_quality_height(quality)
         IN  IF Truthy(height)
             THEN IF height[1] < H264Threshold
                  THEN H264Format(height[1])
                  ELSE CappedFormat(height[1])
             ELSE UnrestrictedFormat

VideoFormatId(quality) ==
    IF quality = Best THEN UnrestrictedFormat
    ELSE LET height == get_quality_height(quality)
         IN  IF Truthy(height)
             THEN IF height[1] <= H264Threshold
                  THEN H264Format(height[1])
                  ELSE CappedFormat(height[1])
             ELSE UnrestrictedFormat

\* mutant: the audio branch is missing
get_selected_format_no_audio(type, quality) ==
    [ type       |-> type,
      quality    |-> quality,
      audio_only |-> (type = "audio"),
      format_id  |-> VideoFormatId(quality) ]

get_selected_format(type, quality) ==
    LET is_audio == (type = "audio")
    IN  [ type       |-> type,
          quality    |-> quality,
          audio_only |-> is_audio,
          format_id  |-> IF is_audio THEN AudioFormat ELSE VideoFormatId(quality) ]

get_format_string(type, quality) ==
    LET format_info == get_selected_format(type, quality)
    IN  IF format_info.audio_only THEN AudioFormat ELSE format_info.format_id

-----------------------------------------------------------------------------
(* Widget operations                                                       *)

\* notify_format_change: the record handed to the callback, when there is one
notify_format_change(type, quality) ==
    IF on_format_change THEN Some(get_selected_format(type, quality)) ELSE notified

\* the build script is not running
BuildIdle ==
    /\ pc = "idle"
    /\ platform_system = "Linux"
    /\ platform_machine = "x86_64"
    /\ dist = {}
    /\ staging = {}
    /\ archives = {}
    /\ calls = <<>>
    /\ adjusted = <<>>
    /\ exit_status = <<>>

WidgetInit ==
    /\ BuildIdle
    /\ type_var = "video"
    /\ quality_var = DefaultQuality
    /\ quality_shown = TRUE
    /\ on_format_change \in BOOLEAN
    /\ notified = None
    /\ current_url = ""
    /\ available_formats = <<>>
    /\ returned = None

\* mutant: showing the dropdown again resets its selection
on_type_change_resets(value) ==
    /\ type_var' = value
    /\ quality_shown' = (value # "audio")
    /\ quality_var' = IF value = "audio" THEN quality_var ELSE DefaultQuality
    /\ notified' = notify_format_change(value, quality_var')
    /\ UNCHANGED <<on_format_change, current_url, available_formats, returned, bvars>>

on_type_change(value) ==
    /\ type_var' = value
    /\ quality_shown' = (value # "audio")
    /\ notified' = notify_format_change(value, quality_var)
    /\ UNCHANGED <<quality_var, on_format_change, current_url, available_formats, returned, bvars>>

on_quality_change(value) ==
    /\ notified' = notify_format_change(type_var, quality_var)
    /\ UNCHANGED <<type_var, quality_var, quality_shown, on_format_change,
                   current_url, available_formats, returned, bvars>>

\* the user picks a value in the dropdown: the combo box sets its variable
\* and then calls its command, on_quality_change
select_quality(value) ==
    /\ quality_shown
    /\ quality_var' = value
    /\ notified' = notify_format_change(type_var, value)
    /\ UNCHANGED <<type_var, quality_shown, on_format_change,
                   current_url, available_formats, returned, bvars>>

\* format_info: the 'audio_only' key is absent, True or False; the 'quality'
\* key is absent (None) or holds a label
FormatInfos ==
    [audio_only : {"absent", "True", "False"}, quality : {None} \cup {Some(q) : q \in SetLabels}]

set_format(format_info) ==
    LET audio == (format_info.audio_only = "True")
        type  == IF audio THEN "audio" ELSE "video"
    IN  /\ type_var' = type
        /\ quality_shown' = ~audio
        /\ notified' = notify_format_change(type, quality_var)
        /\ quality_var' = IF format_info.quality # None /\ type = "video"
                          THEN format_info.quality[1]
                          ELSE quality_var
        /\ UNCHANGED <<on_format_change, current_url, available_formats, returned, bvars>>

reset_to_defaults ==
    /\ type_var' = "video"
    /\ quality_var' = DefaultQuality
    /\ quality_shown' = TRUE
    /\ notified' = notify_format_change("video", DefaultQuality)
    /\ UNCHANGED <<on_format_change, current_url, available_formats, returned, bvars>>

Urls == {"", "https://a"}
FormatLists == {<<>>, <<"18">>}

update_available_formats(url, formats) ==
    /\ current_url' = url
    /\ available_formats' = IF formats # <<>> THEN formats ELSE available_formats
    /\ UNCHANGED <<type_var, quality_var, quality_shown, on_format_change, notified, returned, bvars>>

Next ==
    \/ \E value \in TypeArgs : on_type_change(value)
    \/ \E value \in DropdownLabels : on_quality_change(value)
    \/ \E value \in DropdownLabels : select_quality(value)
    \/ \E format_info \in FormatInfos : set_format(format_info)
    \/ reset_to_defaults
    \/ \E url \in Urls, formats \in FormatLists : update_available_formats(url, formats)

Spec == WidgetInit /\ [][Next]_vars

-----------------------------------------------------------------------------
(* The getters, applied in every state the two selections can be in        *)

FormatInit ==
    /\ BuildIdle
    /\ type_var \in TypeArgs
    /\ quality_var \in AllLabels
    /\ quality_shown = (type_var # "audio")
    /\ on_format_change = FALSE
    /\ notified = None
    /\ current_url = ""
    /\ available_formats = <<>>
    /\ returned = None

Return(op, value) ==
    /\ returned' = Some([op |-> op, value |-> value])
    /\ UNCHANGED <<type_var, quality_var, quality_shown, on_format_change, notified,
                   current_url, available_formats, bvars>>

call_get_selected_format ==
    Return("get_selected_format", get_selected_format(type_var, quality_var))

call_get_format_string ==
    Return("get_format_string", get_format_string(type_var, quality_var))

call_get_quality_height ==
    Return("get_quality_height", get_quality_height(quality_var))

FormatNext ==
    \/ call_get_selected_format
    \/ call_get_format_string
    \/ call_get_quality_height

FormatSpec == FormatInit /\ [][FormatNext]_vars

-----------------------------------------------------------------------------
(* build.py: constants and the platform                                    *)

APP_NAME == "YT-DLP-GUI"
APP_VERSION == "1.0.0"

Systems == {"Darwin", "Windows", "Linux", "FreeBSD"}
Machines == {"x86_64", "arm64", "AMD64"}

\* str.lower() on the names the platform module reports
Lower(name) ==
    CASE name = "Darwin"  -> "darwin"
      [] name = "Windows" -> "windows"
      [] name = "Linux"   -> "linux"
      [] name = "FreeBSD" -> "freebsd"
      [] name = "AMD64"   -> "amd64"
      [] OTHER            -> name

Required == {"PyInstaller", "customtkinter", "yt-dlp", "Pillow", "psutil"}

\* entries the bundler can leave in dist/
AppBundle  == "YT-DLP-GUI.app"
OtherApp   == "Other.app"
DirectExe  == "YT-DLP-GUI.exe"
NestedExe  == "YT-DLP-GUI/YT-DLP-GUI.exe"
NestedExec == "YT-DLP-GUI/YT-DLP-GUI"
DirectFile == "YT-DLP-GUI"
\* a file inside an .app bundle, as rglob("*") finds it
InnerFile(app) ==
    IF app = "YT-DLP-GUI.app" THEN "YT-DLP-GUI.app/Contents/MacOS/YT-DLP-GUI"
    ELSE "Other.app/Contents/MacOS/Other"

DistEntries == {AppBundle, OtherApp, DirectExe, NestedExe, NestedExec, DirectFile}

\* dist/YT-DLP-GUI is a file or a folder, not both
DistContents ==
    {d \in SUBSET DistEntries :
        ~(DirectFile \in d /\ (NestedExe \in d \/ NestedExec \in d))}

IsApp(entry) == entry \in {AppBundle, OtherApp}

Stages == <<"check_dependencies", "ensure_paths", "clean_build",
            "build_with_pyinstaller", "create_archive">>

Call(name, result) == [name |-> name, result |-> result]

-----------------------------------------------------------------------------
(* build.py: the functions main() drives                                   *)

\* check_dependencies: False when a required package does not import
check_dependencies(missing) == missing = {}

\* ensure_paths: sys.exit(1) unless src, src/ytdlp_gui and main.py exist
ensure_paths(src, package, main_script) == src /\ package /\ main_script

\* adjust_macos_app: a failing chmod or xattr is passed over, any other
\* failure is caught and makes it return False; nothing is raised
AdjustEnvs == [chmod_fails : BOOLEAN, xattr_fails : BOOLEAN, walk_fails : BOOLEAN]

adjust_macos_app(env) == IF env.walk_fails THEN "False" ELSE "True"

\* the .app build_with_pyinstaller adjusts after the bundler, if any
app_candidates(d) ==
    IF AppBundle \in d THEN {AppBundle}
    ELSE IF OtherApp \in d THEN {OtherApp} ELSE {}

\* build_with_pyinstaller: its result from the outcome of subprocess.run
\* (check=True) and of the post-build adjustment
BundlerRuns == {"ok", "CalledProcessError", "OSError"}

\* mutant: a non-zero exit of the bundler is passed over
build_with_pyinstaller_lenient(run, adjust_returned) ==
    CASE run = "OSError" -> "raise"
      [] OTHER           -> "True"

\* mutant: the stage fails when the adjustment returned False
build_with_pyinstaller_strict(run, adjust_returned) ==
    CASE run = "ok"                 -> IF adjust_returned = "False" THEN "False" ELSE "True"
      [] run = "CalledProcessError" -> "False"
      [] OTHER                      -> "raise"

build_with_pyinstaller(run, adjust_returned) ==
    CASE run = "ok"                 -> "True"
      [] run = "CalledProcessError" -> "False"
      [] OTHER                      -> "raise"

\* find_built_artifact: the entries it can return (directory order decides
\* among the fallbacks), {None} when it finds nothing
find_built_artifact(system, d) ==
    LET apps   == {e \in d : IsApp(e)}
        exes   == d \cap {DirectExe, NestedExe}
        root   == d \cap {DirectExe, DirectFile}
        deeper == (d \cap {NestedExe, NestedExec}) \cup {InnerFile(a) : a \in apps}
        other  == IF NestedExec \in d THEN {Some(NestedExec)}
                  ELSE IF DirectFile \in d THEN {Some(DirectFile)}
                  ELSE IF root # {} THEN {Some(e) : e \in root}
                  ELSE IF deeper # {} THEN {Some(e) : e \in deeper}
                  ELSE {None}
    IN  IF system = "darwin" /\ AppBundle \in d THEN {Some(AppBundle)}
        ELSE IF system = "darwin" /\ apps # {} THEN {Some(a) : a \in apps}
        ELSE IF system = "windows" /\ DirectExe \in d THEN {Some(DirectExe)}
        ELSE IF system = "windows" /\ NestedExe \in d THEN {Some(NestedExe)}
        ELSE IF system = "windows" /\ exes # {} THEN {Some(e) : e \in exes}
        ELSE other

archive_basename(system, arch) ==
    <<APP_NAME, "-v", APP_VERSION, "-", system, "-", arch>>

Archive(base, ext) == [dir |-> "dist", base |-> base, ext |-> ext]

\* what a call leaves behind
Outcome(ret, made, left, did) ==
    [ret |-> ret, archives |-> made, staging |-> left, calls |-> did]

\* create_dmg
DmgEnvs == [hdiutil : BOOLEAN, copy_ok : BOOLEAN, run_ok : BOOLEAN, rmtree_ok : BOOLEAN]

create_dmg(target_dmg, env) ==
    IF ~env.hdiutil THEN Outcome("False", {}, {}, <<>>)
    ELSE IF ~env.copy_ok
    THEN Outcome("False", {}, {"dmg_staging"}, <<Call("ditto", "failed")>>)
    ELSE Outcome(IF env.run_ok THEN "True" ELSE "False",
                 IF env.run_ok THEN {target_dmg} ELSE {},
                 IF env.rmtree_ok THEN {} ELSE {"dmg_staging"},
                 <<Call("ditto", "ok"),
                   Call("hdiutil", IF env.run_ok THEN "ok" ELSE "CalledProcessError"),
                   Call("rmtree", IF env.rmtree_ok THEN "ok" ELSE "failed")>>)

\* the zip / tar.gz branch of create_archive
PackEnvs == [copy_ok : BOOLEAN, readme_ok : BOOLEAN, make_ok : BOOLEAN, rmtree_ok : BOOLEAN]

\* mutant: a zip on every system
archive_ext_zip(system) == ".zip"

archive_ext(system) == IF system = "windows" THEN ".zip" ELSE ".tar.gz"

pack_archive(system, base, env) ==
    LET left    == IF env.rmtree_ok THEN {} ELSE {"archive_temp"}
        cleanup == Call("rmtree", IF env.rmtree_ok THEN "ok" ELSE "failed")
    IN  IF ~env.copy_ok \/ ~env.readme_ok
        THEN Outcome("raise", {}, left, <<Call("copy", "failed"), cleanup>>)
        ELSE Outcome(IF env.make_ok THEN "True" ELSE "False",
                     IF env.make_ok THEN {Archive(base, archive_ext(system))} ELSE {},
                     left,
                     <<Call("copy", "ok"),
                       Call("make_archive", IF env.make_ok THEN "ok" ELSE "failed"),
                       cleanup>>)

\* the .app create_archive hands to create_dmg: the artifact found, or else
\* one of the .app bundles in dist/
dmg_sources(built, d) ==
    IF IsApp(built) THEN {built}
    ELSE IF {e \in d : IsApp(e)} # {} THEN {e \in d : IsApp(e)}
    ELSE {built}

\* create_archive, given the artifact found and the environment's answers
create_archive(system, arch, found, source, adjust_env, dmg_env, pack_env) ==
    LET base == archive_basename(system, arch)
    IN  IF found = None THEN Outcome("False", {}, {}, <<>>)
        ELSE IF system = "darwin"
        THEN IF ~IsApp(source) THEN Outcome("False", {}, {}, <<>>)
             ELSE LET dmg == create_dmg(Archive(base, ".dmg"), dmg_env)
                  IN  [dmg EXCEPT !.calls =
                          <<Call("adjust_macos_app", adjust_macos_app(adjust_env)),
                            Call("create_dmg", dmg.ret)>> \o dmg.calls]
        ELSE pack_archive(system, base, pack_env)

-----------------------------------------------------------------------------
(* build.py: main()                                                        *)

\* the widget is not in use
WidgetIdle ==
    /\ type_var = "video"
    /\ quality_var = DefaultQuality
    /\ quality_shown = TRUE
    /\ on_format_change = FALSE
    /\ notified = None
    /\ current_url = ""
    /\ available_formats = <<>>
    /\ returned = None

\* output a prior run can have left behind
PriorDist == {{}, {AppBundle}, {NestedExec}}
PriorStaging == {{}, {"dmg_staging"}, {"archive_temp"}}
PriorArchives(system, arch) == {{}, {Archive(archive_basename(system, arch), ".zip")}}

BuildInit ==
    /\ WidgetIdle
    /\ pc = "check_dependencies"
    /\ platform_system \in Systems
    /\ platform_machine \in Machines
    /\ dist \in PriorDist
    /\ staging \in PriorStaging
    /\ archives \in PriorArchives(Lower(platform_system), Lower(platform_machine))
    /\ calls = <<>>
    /\ adjusted = <<>>
    /\ exit_status = None

\* sys.exit(status), or the interpreter ending on an uncaught exception
Exit(status) ==
    /\ pc' = "exit"
    /\ exit_status' = Some(status)

\* mutant: the result of the stage is not looked at
Proceed_always(ret, next) == pc' = next /\ exit_status' = exit_status

\* where main() goes after a stage that returned ret
Proceed(ret, next) ==
    IF ret = "True" THEN pc' = next /\ exit_status' = exit_status
    ELSE Exit(1)

\* the environment's answers that matter when cond holds
EnvFor(cond, S) == IF cond THEN S ELSE {CHOOSE e \in S : TRUE}

MainCheckDependencies ==
    /\ pc = "check_dependencies"
    /\ \E missing \in SUBSET Required :
         LET ret == IF check_dependencies(missing) THEN "True" ELSE "False"
         IN  /\ calls' = Append(calls, Call("check_dependencies", ret))
             /\ Proceed(ret, "ensure_paths")
    /\ UNCHANGED <<wvars, platform_system, platform_machine, dist, staging, archives, adjusted>>

MainEnsurePaths ==
    /\ pc = "ensure_paths"
    /\ \E src \in BOOLEAN, package \in BOOLEAN, main_script \in BOOLEAN :
         LET ret == IF ensure_paths(src, package, main_script) THEN "True" ELSE "False"
         IN  /\ calls' = Append(calls, Call("ensure_paths", ret))
             /\ Proceed(ret, "clean_build")
    /\ UNCHANGED <<wvars, platform_system, platform_machine, dist, staging, archives, adjusted>>

\* clean_build, then the two mkdir of main(); a failing rmtree or mkdir is
\* an uncaught exception
MainCleanBuild ==
    /\ pc = "clean_build"
    /\ \E rmtree_ok \in BOOLEAN, mkdir_ok \in BOOLEAN :
         IF ~rmtree_ok
         THEN /\ calls' = Append(calls, Call("clean_build", "raise"))
              /\ Exit(1)
              /\ UNCHANGED <<dist, staging, archives>>
         ELSE /\ dist' = {}
              /\ staging' = {}
              /\ archives' = {}
              /\ IF mkdir_ok
                 THEN /\ calls' = Append(calls, Call("clean_build", "True"))
                      /\ Proceed("True", "build_with_pyinstaller")
                 ELSE /\ calls' = calls \o <<Call("clean_build", "True"), Call("mkdir", "raise")>>
                      /\ Exit(1)
    /\ UNCHANGED <<wvars, platform_system, platform_machine, adjusted>>

MainBuildWithPyinstaller ==
    /\ pc = "build_with_pyinstaller"
    /\ \E run \in BundlerRuns, produced \in DistContents :
         LET made     == IF run = "OSError" THEN {} ELSE produced
             adjusts  == /\ Lower(platform_system) = "darwin"
                         /\ run = "ok"
                         /\ app_candidates(made) # {}
         IN  \E adjust_env \in EnvFor(adjusts, AdjustEnvs) :
               LET returned_ == IF adjusts THEN adjust_macos_app(adjust_env) ELSE "None"
                   ret == build_with_pyinstaller(run, returned_)
               IN  /\ dist' = made
                   /\ adjusted' = IF adjusts
                                  THEN Append(adjusted, [env |-> adjust_env, returned |-> returned_])
                                  ELSE adjusted
                   /\ calls' = calls \o <<Call("PyInstaller", run)>>
                                 \o (IF adjusts THEN <<Call("adjust_macos_app", returned_)>> ELSE <<>>)
                                 \o <<Call("build_with_pyinstaller", ret)>>
                   /\ Proceed(ret, "create_archive")
    /\ UNCHANGED <<wvars, platform_system, platform_machine, staging, archives>>

MainCreateArchive ==
    /\ pc = "create_archive"
    /\ LET system == Lower(platform_system)
           arch   == Lower(platform_machine)
       IN  \E found \in find_built_artifact(system, dist) :
           \E source \in IF found = None THEN {None} ELSE dmg_sources(found[1], dist) :
             LET adjusts == found # None /\ system = "darwin" /\ IsApp(source)
                 packs   == found # None /\ system # "darwin"
             IN  \E adjust_env \in EnvFor(adjusts, AdjustEnvs),
                    dmg_env \in EnvFor(adjusts, DmgEnvs),
                    pack_env \in EnvFor(packs, PackEnvs) :
                   LET out == create_archive(system, arch, found, source,
                                             adjust_env, dmg_env, pack_env)
                   IN  /\ adjusted' = IF adjusts
                                      THEN Append(adjusted, [env |-> adjust_env,
                                                             returned |-> adjust_macos_app(adjust_env)])
                                      ELSE adjusted
                       /\ archives' = archives \cup out.archives
                       /\ staging' = out.staging
                       /\ calls' = calls \o out.calls \o <<Call("create_archive", out.ret)>>
                       /\ Proceed(out.ret, "print_success")
    /\ UNCHANGED <<wvars, platform_system, platform_machine, dist>>

\* the last two prints of main(), after which the interpreter exits with 0
MainSuccess ==
    /\ pc = "print_success"
    /\ calls' = Append(calls, Call("print", "Build completed successfully!"))
    /\ Exit(0)
    /\ UNCHANGED <<wvars, platform_system, platform_machine, dist, staging, archives, adjusted>>

BuildNext ==
    \/ MainCheckDependencies
    \/ MainEnsurePaths
    \/ MainCleanBuild
    \/ MainBuildWithPyinstaller
    \/ MainCreateArchive
    \/ MainSuccess

BuildSpec == BuildInit /\ [][BuildNext]_vars

-----------------------------------------------------------------------------
(* Properties of the format functions (checked under FormatSpec)           *)

Returned(op) == returned # None /\ returned[1].op = op

Label720 == <<"7", "2", "0", "p">>

\* C1: whenever the type selection is "audio", get_selected_format() returns
\* format_id 'bestaudio/best' and get_format_string() returns
\* 'bestaudio/best', whatever the quality selection holds.
C1_AudioAlwaysFixed ==
    type_var = "audio" =>
        /\ Returned("get_selected_format") => returned[1].value.format_id = <<"bestaudio/best">>
        /\ Returned("get_format_string") => returned[1].value = <<"bestaudio/best">>

\* audio was selected while the quality held a label with no digits before
\* its 'p', and get_selected_format was called
C1_Witness ==
    /\ type_var = "audio"
    /\ quality_var = <<"K", "p">>
    /\ Returned("get_selected_format")
    /\ returned[1].value.audio_only

NoHeightConstraint(format_id) ==
    \A i \in 1..Len(format_id) : format_id[i] # "[height<="

\* C3: with type "video" and quality "Best", get_quality_height returns None
\* and get_selected_format() returns the unrestricted template, which holds
\* no height constraint.
C3_BestUnrestricted ==
    (type_var = "video" /\ quality_var = Best) =>
        /\ Returned("get_quality_height") => returned[1].value = None
        /\ Returned("get_selected_format") =>
             /\ returned[1].value.format_id = <<"best[ext=mp4]/bestvideo+bestaudio/best">>
             /\ NoHeightConstraint(returned[1].value.format_id)

C3_Witness ==
    /\ type_var = "video"
    /\ quality_var = Best
    /\ Returned("get_selected_format")
    /\ returned[1].value.quality = Best

\* the height each dropdown label names before its 'p'
LabelHeight(label) ==
    CASE label = DefaultQuality -> 2160
      [] label = <<"1", "4", "4", "0", "p", " ", "(", "2", "K", ")">> -> 1440
      [] label = <<"1", "0", "8", "0", "p">> -> 1080
      [] label = Label720 -> 720
      [] label = <<"4", "8", "0", "p">> -> 480
      [] label = <<"3", "6", "0", "p">> -> 360
      [] label = <<"2", "4", "0", "p">> -> 240
      [] label = <<"1", "4", "4", "p">> -> 144

\* C4: for every dropdown label other than "Best", get_quality_height returns
\* the integer written by the digits directly before the 'p' of the label,
\* never the number inside the parenthesised suffix.
C4_DropdownHeights ==
    (quality_var \in DropdownLabels \ {Best} /\ Returned("get_quality_height")) =>
        returned[1].value = Some(LabelHeight(quality_var))

C4_Witness ==
    /\ quality_var = DefaultQuality
    /\ Returned("get_quality_height")
    /\ returned[1].value = Some(2160)

Skeleton(format_id) ==
    LET NotDigit(fragment) == ~IsDigit(fragment)
    IN  SelectSeq(format_id, NotDigit)

\* the heights a format identifier constrains, one for each [height<=...]
ConstrainedHeights(format_id) ==
    {int(SubSeq(format_id, i + 1, RunEnd(format_id, i + 1))) :
        i \in {k \in 1..(Len(format_id) - 1) : format_id[k] = "[height<="}}

\* C11: with type "video" and a label that parses to a positive height h,
\* the format_id is the four-alternative H.264-priority template when
\* h <= 480 and 'best[height<=h][ext=mp4]/bestvideo[height<=h]+bestaudio/best'
\* when h > 480, and every height constraint in it is exactly h.
C11_TemplateByThreshold ==
    ( /\ type_var = "video"
      /\ quality_var # Best
      /\ get_quality_height(quality_var) # None
      /\ get_quality_height(quality_var)[1] > 0
      /\ Returned("get_selected_format") ) =>
        LET h == get_quality_height(quality_var)[1]
            format_id == returned[1].value.format_id
        IN  /\ ConstrainedHeights(format_id) = {h}
            /\ h <= 480 =>
                  Skeleton(format_id) =
                     << "best", "[height<=", "]",
                        "[ext=mp4][vcodec!=none][acodec!=none]/bestvideo", "[height<=", "]",
                        "[vcodec^=avc1]+bestaudio[acodec^=mp4a]/bestvideo", "[height<=", "]",
                        "+bestaudio/best", "[height<=", "]" >>
            /\ h > 480 =>
                  Skeleton(format_id) =
                     << "best", "[height<=", "]", "[ext=mp4]/bestvideo",
                        "[height<=", "]", "+bestaudio/best" >>
            /\ \A i \in 1..(Len(format_id) - 1) :
                  format_id[i] = "[height<=" =>
                      /\ IsDigit(format_id[i + 1])
                      /\ format_id[RunEnd(format_id, i + 1) + 1] = "]"

\* the boundary label "480p" took the H.264-priority template
C11_Witness ==
    /\ type_var = "video"
    /\ quality_var = <<"4", "8", "0", "p">>
    /\ Returned("get_selected_format")
    /\ Len(returned[1].value.format_id) = 24
    /\ ConstrainedHeights(returned[1].value.format_id) = {480}

-----------------------------------------------------------------------------
(* Properties of the widget (checked under Spec)                           *)

\* C2: on_type_change("audio") hides the quality label and dropdown,
\* on_type_change("video") shows them again, and no on_type_change step
\* modifies the quality selection, so it shows the value it had before.
C2_ToggleKeepsQuality ==
    [][\A value \in TypeArgs :
          on_type_change(value) =>
              /\ quality_var' = quality_var
              /\ value = "audio" => ~quality_shown'
              /\ value = "video" => quality_shown']_vars

\* the type was toggled to audio while the quality held a chosen value
C2_Witness ==
    /\ type_var = "audio"
    /\ ~quality_shown
    /\ quality_var = Label720
    /\ notified = Some(get_selected_format("audio", Label720))

\* C9: after any sequence of the widget's operations, the record
\* get_selected_format() returns has type "video" or "audio", audio_only
\* true exactly when type is "audio", and a non-empty format_id.
C9_RecordWellFormed ==
    LET format_info == get_selected_format(type_var, quality_var)
    IN  /\ format_info.type \in {"video", "audio"}
        /\ format_info.audio_only = (format_info.type = "audio")
        /\ format_info.format_id # <<>>

\* C12: when a callback was given, after each of on_type_change,
\* on_quality_change, set_format and reset_to_defaults returns, the record
\* most recently passed to the callback equals what get_selected_format()
\* returns in that state.
C12_NotifiedIsCurrent ==
    [][( /\ on_format_change
         /\ \/ \E value \in TypeArgs : on_type_change(value)
            \/ \E value \in DropdownLabels : on_quality_change(value)
            \/ \E format_info \in FormatInfos : set_format(format_info)
            \/ reset_to_defaults ) =>
            notified' = Some(get_selected_format(type_var', quality_var'))]_vars

-----------------------------------------------------------------------------
(* Properties of the build script (checked under BuildSpec)                *)

Has(name, result) ==
    \E i \in 1..Len(calls) : calls[i] = Call(name, result)

Ran(name) == \E i \in 1..Len(calls) : calls[i].name = name

Count(names) == Cardinality({i \in 1..Len(calls) : calls[i].name \in names})

StageNames == {Stages[i] : i \in 1..Len(Stages)}

IsStage(call) == call.name \in StageNames

StageCalls == SelectSeq(calls, IsStage)

AllStagesSucceeded ==
    \A i \in 1..Len(Stages) : Has(Stages[i], "True")

\* a dependency check, source-path check, bundler invocation or archive
\* creation that failed
StageFailed ==
    \/ Has("check_dependencies", "False")
    \/ Has("ensure_paths", "False")
    \/ Has("PyInstaller", "CalledProcessError")
    \/ Has("PyInstaller", "OSError")
    \/ Has("create_archive", "False")
    \/ Has("create_archive", "raise")

Succeeded == Has("print", "Build completed successfully!")

\* C5: if the dependency check, the source-path check, the bundler
\* invocation or the archive creation fails, main() ends with a non-zero
\* exit status; the success message and the zero exit are reached only when
\* every stage succeeded.
C5_NonZeroOnFailure ==
    /\ (pc = "exit" /\ StageFailed) => (exit_status # None /\ exit_status[1] # 0)
    /\ StageFailed => pc = "exit"
    /\ Succeeded => AllStagesSucceeded
    /\ exit_status = Some(0) => (AllStagesSucceeded /\ Succeeded)

\* the bundler exited non-zero and the run ended with status 1
C5_Witness ==
    /\ pc = "exit"
    /\ Has("PyInstaller", "CalledProcessError")
    /\ exit_status = Some(1)

\* C6: the stages run in the order dependency check, cleaning, bundler,
\* archive; a stage starts only if every earlier one succeeded; the bundler
\* and the archive tool are each invoked at most once per run.
C6_OrderedNoRetry ==
    /\ Len(StageCalls) <= Len(Stages)
    /\ \A i \in 1..Len(StageCalls) : StageCalls[i].name = Stages[i]
    /\ \A i \in 1..(Len(StageCalls) - 1) : StageCalls[i].result = "True"
    /\ Count({"PyInstaller"}) <= 1
    /\ Count({"hdiutil", "make_archive"}) <= 1
    /\ Ran("PyInstaller") => Has("clean_build", "True") /\ ~Ran("mkdir")
    /\ Ran("hdiutil") \/ Ran("make_archive") => Has("build_with_pyinstaller", "True")

\* the bundler failed: four stages ran, the archive stage and tool did not
C6_Witness ==
    /\ pc = "exit"
    /\ Len(StageCalls) = 4
    /\ Has("build_with_pyinstaller", "False")
    /\ Count({"PyInstaller"}) = 1
    /\ Count({"hdiutil", "make_archive"}) = 0

\* the extension create_archive is to use on a system
KindFor(system) ==
    CASE system = "Darwin"  -> ".dmg"
      [] system = "Windows" -> ".zip"
      [] OTHER              -> ".tar.gz"

\* C7: the archive kind follows from the OS alone (.dmg on darwin, .zip on
\* windows, .tar.gz elsewhere); the artifact is written in dist with base
\* name APP_NAME-vAPP_VERSION-<system>-<arch>; a successful run produces
\* exactly one archive.
C7_ArchiveKindByOS ==
    /\ Has("create_archive", "True") =>
         archives = {[dir  |-> "dist",
                      base |-> <<"YT-DLP-GUI", "-v", "1.0.0", "-",
                                 Lower(platform_system), "-", Lower(platform_machine)>>,
                      ext  |-> KindFor(platform_system)]}
    /\ Ran("hdiutil") => platform_system = "Darwin"
    /\ Ran("make_archive") => platform_system # "Darwin"

\* a successful run on a system that is neither darwin nor windows
C7_Witness ==
    /\ platform_system = "FreeBSD"
    /\ exit_status = Some(0)
    /\ \E a \in archives : a.ext = ".tar.gz"

\* C8: a failure of a chmod or of xattr inside adjust_macos_app, or of
\* adjust_macos_app as a whole, never turns a successful bundler invocation
\* into a failed build stage and never prevents create_dmg from being
\* attempted.
C8_AdjustBestEffort ==
    /\ (Has("PyInstaller", "ok") /\ Ran("build_with_pyinstaller")) =>
          Has("build_with_pyinstaller", "True")
    /\ \A i \in 1..Len(calls) :
          (calls[i].name = "adjust_macos_app" /\ Has("build_with_pyinstaller", "True")
             /\ \E j \in 1..(i - 1) : calls[j].name = "build_with_pyinstaller") =>
          (i < Len(calls) /\ calls[i + 1].name = "create_dmg")

\* both adjustments failed as a whole, the build stage succeeded and the
\* disk image was created
C8_Witness ==
    /\ Len(adjusted) = 2
    /\ adjusted[1].returned = "False" /\ adjusted[1].env.chmod_fails
    /\ adjusted[2].returned = "False" /\ adjusted[2].env.xattr_fails
    /\ Has("build_with_pyinstaller", "True")
    /\ Has("hdiutil", "ok")
    /\ exit_status = Some(0)

\* C13: whenever create_dmg or the zip/tarball branch of create_archive
\* returns (True or False) after having created its staging directory, that
\* directory no longer exists, also when copying the built artifact into
\* staging failed. (A removal that itself fails is left aside.)
C13_StagingRemoved ==
    ( /\ Has("create_archive", "True") \/ Has("create_archive", "False")
      /\ Ran("ditto") \/ Ran("copy")
      /\ ~Has("rmtree", "failed") ) =>
        staging = {}

====
